---- MODULE Spec2Model ----
(***************************************************************************)
(* Model of src/src/client.rs: the Client lifecycle controller (new, run,  *)
(* stop), the background task spawned by run() with its receive/dispatch/  *)
(* do_work/notify loop, and the ClientEventHandler that turns transport    *)
(* callbacks into Messages on the application-facing channel.              *)
(*                                                                         *)
(* The transport (IotHubClient), the watchdog (WatchdogHandler) and the    *)
(* application are outside the file: every call into them returns one of   *)
(* the outcomes its signature allows, chosen nondeterministically.         *)
(***************************************************************************)
EXTENDS Naturals, Sequences, FiniteSets

\* ------------------------------------------------------------------ bounds
MaxInputs == 2      \* things the environment does: messages the application
                    \* submits, channel ends it drops, callbacks the
                    \* transport delivers to the event handler
MaxIter   == 2      \* loop iterations entered with the run flag true

\* ------------------------------------------------------------- value sets
Payloads == {"p1", "p2"}                 \* IotMessage bodies
Values   == {"v1"}                       \* serde_json::Value documents
Reasons  == {"ExpiredSasToken"}          \* UnauthenticatedReason
TwinUpdateState == {"Complete", "Partial"}
ErrCodes == {"e1", "e2"}
ClientType == {"Device", "Module", "Edge"}

\* Message (client.rs 11-19); unused fields hold "-"
Msg(k, s, p) == [kind |-> k, state |-> s, payload |-> p]
Desired(s, v)      == Msg("Desired", s, v)
Reported(v)        == Msg("Reported", "-", v)
D2C(m)             == Msg("D2C", "-", m)
C2D(m)             == Msg("C2D", "-", m)
Authenticated      == Msg("Authenticated", "-", "-")
Unauthenticated(r) == Msg("Unauthenticated", "-", r)
Terminate          == Msg("Terminate", "-", "-")

Message ==
    {Desired(s, v) : s \in TwinUpdateState, v \in Values}
    \cup {Reported(v) : v \in Values}
    \cup {D2C(m) : m \in Payloads}
    \cup {C2D(m) : m \in Payloads}
    \cup {Authenticated, Terminate}
    \cup {Unauthenticated(r) : r \in Reasons}

\* the messages the application puts on the manager's channel
Submittable ==
    {Reported(v) : v \in Values} \cup {D2C(m) : m \in Payloads}
    \cup {Terminate, Authenticated, Desired("Partial", "v1")}

\* Result<(), IotError> of the task and of stop(); "None" = not produced yet
Res(t, o, c) == [tag |-> t, op |-> o, code |-> c]
NoResult   == Res("None", "-", "-")
Ok         == Res("Ok", "-", "-")
Err(o, c)  == Res("Err", o, c)
\* a panic of the task is seen by the joiner as a JoinError, converted by `?`
JoinError  == Res("Err", "join", "panic")
Panicked   == Res("Panic", "-", "-")

\* outcome of recv_timeout when no message is returned
RecvTimeout      == Msg("Err", "-", "Timeout")
RecvDisconnected == Msg("Err", "-", "Disconnected")
NoRecv           == Msg("None", "-", "-")

VARIABLES
    systemd,            \* cfg(feature = "systemd") of the build
    run,                \* Client.run : Arc<Mutex<bool>>
    run_guard,          \* holder of the MutexGuard of run: none, task, controller
    thread,             \* Client.thread : "None" | "Some"
    ctl,                \* controller position: new, running, stopping, stopped, panicked
    stop_result,        \* value stop() returned
    pc,                 \* position of the spawned task
    result,             \* value the task ended with
    connection_string,  \* run() argument moved into the task: "None" | "Some"
                        \* ("-" before run() and after its last use at 96)
    client_type,        \* scrutinee of the match at line 94 ("-" outside it)
    constructing,       \* the IotHubClient constructor being executed, or "-"
    client,             \* the IotHubClient: none, alive, dropped
    rx,                 \* manager's channel: messages submitted, not yet received
    rx_senders,         \* some Sender of the manager's channel is alive
    tx,                 \* application-facing channel contents
    tx_receiver,        \* the application-facing Receiver is alive
    process,            \* "running" | "aborted"
    \* history
    submitted,          \* every message the application submitted
    recvs,              \* number of recv_timeout calls
    last_recv,          \* outcome of the latest recv_timeout
    sent,               \* transport send calls, in call order
    ticks,              \* number of do_work calls
    notifies,           \* number of wdt.notify calls
    constructs,         \* number of IotHubClient constructor calls
    failure,            \* the first Err an external call returned to the task
    events,             \* event handler calls, in call order
    at_stop             \* counters when stop() wrote the run flag

vars == <<systemd, run, run_guard, thread, ctl, stop_result, pc, result, connection_string,
          client_type, constructing, client, rx, rx_senders, tx, tx_receiver,
          process, submitted, recvs, last_recv, sent, ticks, notifies, constructs,
          failure, events, at_stop>>

ctlVars  == <<run, run_guard, thread, ctl, stop_result, at_stop>>
initVars == <<connection_string, client_type, constructing, constructs>>
taskVars == <<pc, result, client>>
loopHist == <<recvs, last_recv, sent, ticks, notifies>>
failVars == <<failure>>
appVars  == <<rx, rx_senders, tx_receiver, submitted>>
evVars   == <<tx, events>>

\* what the environment has done so far
Inputs ==
    Len(submitted) + Len(events)
    + (IF rx_senders THEN 0 ELSE 1) + (IF tx_receiver THEN 0 ELSE 1)

\* (entered: the task has passed a flag check that read true)
Counters == [recvs |-> recvs, sends |-> Len(sent), ticks |-> ticks,
             submitted |-> Len(submitted), entered |-> (recvs > 0 \/ pc = "recv")]

\* ------------------------------------------------------------------- Init
\* Client::new (66-71): thread None, run false; the channels exist, empty.
Init ==
    /\ systemd \in BOOLEAN
    /\ run = FALSE
    /\ run_guard = "none"
    /\ thread = "None"
    /\ ctl = "new"
    /\ stop_result = NoResult
    /\ pc = "unspawned"
    /\ result = NoResult
    /\ connection_string = "-"
    /\ client_type = "-"
    /\ constructing = "-"
    /\ client = "none"
    /\ rx = <<>>
    /\ rx_senders = TRUE
    /\ tx = <<>>
    /\ tx_receiver = TRUE
    /\ process = "running"
    /\ submitted = <<>>
    /\ recvs = 0
    /\ last_recv = NoRecv
    /\ sent = <<>>
    /\ ticks = 0
    /\ notifies = 0
    /\ constructs = 0
    /\ failure = NoResult
    /\ events = <<>>
    /\ at_stop = [recvs |-> 0, sends |-> 0, ticks |-> 0, submitted |-> 0,
                  entered |-> FALSE]

\* ---------------------------------------------------------------- helpers
\* the task's async block returns r: its locals (client, event_handler, rx)
\* are dropped (84-122)
TaskExit(r) ==
    /\ pc' = "done"
    /\ result' = r
    /\ client' = IF client = "alive" THEN "dropped" ELSE client

\* variant: the error is kept as the result but the task goes on
Question_Late(res, next) ==
    /\ pc' = next
    /\ result' = IF res.tag = "Ok" THEN result ELSE res
    /\ UNCHANGED client

\* the `?` operator on a Result<_, IotError> (92, 96, 99, 101, 106, 108, 118):
\* Err returns from the task with that error, Ok goes on to position next
Question(res, next) ==
    IF res.tag = "Ok"
    THEN pc' = next /\ UNCHANGED <<result, client>>
    ELSE TaskExit(res)

\* outcomes of a fallible external call named op
Outcomes(op) == {Ok} \cup {Err(op, c) : c \in ErrCodes}

\* an external call returned res to the task
Returned(res) ==
    failure' = IF res.tag = "Err" /\ failure = NoResult THEN res ELSE failure

\* variant: the client type is matched before the connection string
Strategy_TypeFirst(cs, ct) ==
    IF ct \in {"Device", "Module"} THEN "from_identity_service"
    ELSE IF cs = "Some" THEN "from_connection_string"
    ELSE "from_edge_environment"

\* match guard and arms of lines 94-102
Strategy(cs, ct) ==
    IF cs = "Some" THEN "from_connection_string"
    ELSE IF ct \in {"Device", "Module"} THEN "from_identity_service"
    ELSE "from_edge_environment"

\* variant: the newest queued message is returned first
RecvOutcome_Lifo(q, senders) ==
    IF q /= <<>> THEN q[Len(q)]
    ELSE IF senders THEN RecvTimeout
    ELSE RecvDisconnected

\* rx.recv_timeout(hundred_millis) (105): a queued message if there is one,
\* else Timeout while a Sender lives, else Disconnected
RecvOutcome(q, senders) ==
    IF q /= <<>> THEN Head(q)
    ELSE IF senders THEN RecvTimeout
    ELSE RecvDisconnected

\* variant: Terminate falls into the wildcard arm
Arm_TerminateIgnored(r) ==
    CASE r.kind = "Reported"  -> "send_reported_state"
      [] r.kind = "D2C"       -> "send_d2c_message"
      [] OTHER                -> "continue"

\* variant: telemetry is sent as a twin report
Arm_D2CAsReported(r) ==
    CASE r.kind = "Reported"  -> "send_reported_state"
      [] r.kind = "D2C"       -> "send_reported_state"
      [] r.kind = "Terminate" -> "return"
      [] OTHER                -> "continue"

\* variant: a message of another variant ends the loop like Terminate
Arm_OtherReturns(r) ==
    CASE r.kind = "Reported"  -> "send_reported_state"
      [] r.kind = "D2C"       -> "send_d2c_message"
      [] r.kind = "Terminate" -> "return"
      [] r.kind = "Err"       -> "continue"
      [] OTHER                -> "return"

\* the arms of the match at 105-113
Arm(r) ==
    CASE r.kind = "Reported"  -> "send_reported_state"
      [] r.kind = "D2C"       -> "send_d2c_message"
      [] r.kind = "Terminate" -> "return"
      [] OTHER                -> "continue"

SendCall(op, p, res) == [op |-> op, payload |-> p, res |-> res]

\* a call of the event handler by the transport: its arguments, the result
\* of its self.tx.send and how the call ended ("()", "Ok", "Err", "panic")
Ev(call, s, p, send, ret) ==
    [call |-> call, state |-> s, payload |-> p, send |-> send, ret |-> ret]

\* variant: the payload of a cloud-to-device message is replaced
C2dMessage_Blank(message) == C2D("p1")

\* the Message each handler builds (29, 31, 37, 50)
ConnectionStatusMessage(status, reason) ==
    IF status = "Authenticated" THEN Authenticated ELSE Unauthenticated(reason)
C2dMessage(message) == C2D(message)
TwinDesiredMessage(state, desired) == Desired(state, desired)

\* self.tx.send(m): Ok and enqueued while the Receiver lives, else Err
TxSendResult == IF tx_receiver THEN "Ok" ELSE "Err"
TxSend(m) ==
    IF tx_receiver
    THEN tx' = Append(tx, m)
    ELSE UNCHANGED tx

\* ------------------------------------------------------------ controller
\* Client::run (73-84, 123): flag true, task spawned, handle stored
Run(cs) ==
    /\ process = "running"
    /\ ctl = "new"
    /\ run_guard = "none"
    /\ run' = TRUE
    /\ thread' = "Some"
    /\ ctl' = "running"
    /\ connection_string' = cs
    /\ pc' = IF systemd THEN "wdt_init" ELSE "get_client_type"
    /\ UNCHANGED <<systemd, failVars, process, run_guard, stop_result, at_stop,
                   client_type, constructing, constructs, result, client,
                   loopHist, appVars, evVars>>

\* Client::stop, line 126: the mutex is taken, the flag is written false and
\* the guard is dropped at the end of the statement
StopSetFlag ==
    /\ process = "running"
    /\ ctl \in {"new", "running"}
    /\ run_guard = "none"
    /\ run' = FALSE
    /\ ctl' = "stopping"
    /\ at_stop' = Counters
    /\ UNCHANGED <<systemd, failVars, process, run_guard, thread, stop_result,
                   initVars, taskVars, loopHist, appVars, evVars>>

\* variant: a missing handle is taken as a task that ended well
StopAwait_NoneIsOk ==
    /\ process = "running"
    /\ ctl = "stopping"
    /\ IF thread = "None"
       THEN ctl' = "stopped" /\ stop_result' = Ok /\ UNCHANGED thread
       ELSE /\ pc = "done"
            /\ ctl' = "stopped"
            /\ thread' = "None"
            /\ stop_result' = IF result = Panicked THEN JoinError ELSE result
    /\ UNCHANGED <<systemd, failVars, process, run, run_guard, at_stop, initVars,
                   taskVars, loopHist, appVars, evVars>>

\* variant: stop() returns without joining the task
StopAwait_NoJoin ==
    /\ process = "running"
    /\ ctl = "stopping"
    /\ IF thread = "None"
       THEN ctl' = "panicked" /\ UNCHANGED <<thread, stop_result>>
       ELSE /\ ctl' = "stopped"
            /\ thread' = "None"
            /\ stop_result' = IF result.tag = "Err" THEN result ELSE Ok
    /\ UNCHANGED <<systemd, failVars, process, run, run_guard, at_stop, initVars,
                   taskVars, loopHist, appVars, evVars>>

\* Client::stop, line 128: unwrap of the handle, then the join and its result
StopAwait ==
    /\ process = "running"
    /\ ctl = "stopping"
    /\ IF thread = "None"
       THEN ctl' = "panicked" /\ UNCHANGED <<thread, stop_result>>
       ELSE /\ pc = "done"
            /\ ctl' = "stopped"
            /\ thread' = "None"
            /\ stop_result' = IF result = Panicked THEN JoinError ELSE result
    /\ UNCHANGED <<systemd, failVars, process, run, run_guard, at_stop, initVars,
                   taskVars, loopHist, appVars, evVars>>

\* ------------------------------------------------------------------ task
\* wdt.init()? (88-92)
WdtInit ==
    /\ process = "running"
    /\ pc = "wdt_init"
    /\ \E res \in Outcomes("wdt.init") :
         Returned(res) /\ Question(res, "get_client_type")
    /\ UNCHANGED <<systemd, process, ctlVars, initVars, loopHist, appVars, evVars>>

\* IotHubClient::get_client_type() (94)
GetClientType ==
    /\ process = "running"
    /\ pc = "get_client_type"
    /\ \E ct \in ClientType : client_type' = ct
    /\ pc' = "construct"
    /\ UNCHANGED <<systemd, failVars, process, ctlVars, connection_string, constructing,
                   constructs, result, client, loopHist, appVars, evVars>>

\* the constructor selected by the match is called (95-101)
Construct ==
    /\ process = "running"
    /\ pc = "construct"
    /\ constructing' = Strategy(connection_string, client_type)
    /\ constructs' = constructs + 1
    /\ pc' = "constructing"
    /\ UNCHANGED <<systemd, failVars, process, ctlVars, connection_string, client_type,
                   result, client, loopHist, appVars, evVars>>

\* variant: a failed construction is not checked and the loop is entered
ConstructReturn_Unchecked ==
    /\ process = "running"
    /\ pc = "constructing"
    /\ \E res \in Outcomes(constructing) :
         /\ Returned(res)
         /\ pc' = "check"
         /\ client' = IF res.tag = "Ok" THEN "alive" ELSE client
         /\ UNCHANGED result
    /\ constructing' = "-"
    /\ connection_string' = "-"
    /\ client_type' = "-"
    /\ UNCHANGED <<systemd, process, ctlVars, constructs, loopHist, appVars, evVars>>

\* the constructor returns, and its `?` (96, 99, 101, 102)
ConstructReturn ==
    /\ process = "running"
    /\ pc = "constructing"
    /\ \E res \in Outcomes(constructing) :
         /\ Returned(res)
         /\ IF res.tag = "Ok"
            THEN pc' = "check" /\ client' = "alive" /\ UNCHANGED result
            ELSE Question(res, "check")
    /\ constructing' = "-"
    /\ connection_string' = "-"
    /\ client_type' = "-"
    /\ UNCHANGED <<systemd, process, ctlVars, constructs, loopHist, appVars, evVars>>

\* variant: the body runs once before the flag is looked at (do-while)
CheckFlag_DoWhile ==
    /\ process = "running"
    /\ pc = "check"
    /\ run_guard = "none"
    /\ IF run \/ recvs = 0
       THEN recvs < MaxIter /\ pc' = "recv" /\ UNCHANGED <<result, client>>
       ELSE TaskExit(Ok)
    /\ UNCHANGED <<systemd, failVars, process, ctlVars, initVars, loopHist, appVars, evVars>>

\* variant: the guard taken for the flag check is kept through the loop body
CheckFlag_GuardKept ==
    /\ process = "running"
    /\ pc = "check"
    /\ run_guard = "none"
    /\ IF run
       THEN /\ recvs < MaxIter /\ pc' = "recv" /\ UNCHANGED <<result, client>>
            /\ run_guard' = "task"
       ELSE TaskExit(Ok) /\ UNCHANGED run_guard
    /\ UNCHANGED <<systemd, failVars, process, run, thread, ctl, stop_result, at_stop,
                   initVars, loopHist, appVars, evVars>>

\* while *running.lock().unwrap() (104): the mutex is taken, the flag read and
\* the guard dropped before the body; and the Ok(()) after the loop (121)
CheckFlag ==
    /\ process = "running"
    /\ pc = "check"
    /\ run_guard = "none"
    /\ IF run
       THEN recvs < MaxIter /\ pc' = "recv" /\ UNCHANGED <<result, client>>
       ELSE TaskExit(Ok)
    /\ UNCHANGED <<systemd, failVars, process, ctlVars, initVars, loopHist, appVars, evVars>>

\* variant: the task clears the run flag when it leaves the loop
Recv_ClearsFlag ==
    /\ process = "running"
    /\ pc = "recv"
    /\ LET r == RecvOutcome(rx, rx_senders)
           a == Arm(r)
       IN /\ recvs' = recvs + 1
          /\ last_recv' = r
          /\ rx' = IF rx /= <<>> THEN Tail(rx) ELSE rx
          /\ CASE a \in {"send_reported_state", "send_d2c_message"} ->
                    \E res \in Outcomes(a) :
                       /\ sent' = Append(sent, SendCall(a, r.payload, res))
                       /\ Returned(res)
                       /\ Question(res, "do_work")
               [] a = "return" -> TaskExit(Ok) /\ UNCHANGED <<sent, failure>>
               [] OTHER -> pc' = "do_work" /\ UNCHANGED <<sent, failure, result, client>>
    /\ run' = (run /\ pc' /= "done")
    /\ UNCHANGED <<systemd, process, run_guard, thread, ctl, stop_result, at_stop,
                   initVars, ticks, notifies, rx_senders, tx_receiver, submitted, evVars>>

\* the match on rx.recv_timeout (105-113)
Recv ==
    /\ process = "running"
    /\ pc = "recv"
    /\ LET r == RecvOutcome(rx, rx_senders)
           a == Arm(r)
       IN /\ recvs' = recvs + 1
          /\ last_recv' = r
          /\ rx' = IF rx /= <<>> THEN Tail(rx) ELSE rx
          /\ CASE a \in {"send_reported_state", "send_d2c_message"} ->
                    \E res \in Outcomes(a) :
                       /\ sent' = Append(sent, SendCall(a, r.payload, res))
                       /\ Returned(res)
                       /\ Question(res, "do_work")
               [] a = "return" -> TaskExit(Ok) /\ UNCHANGED <<sent, failure>>
               [] OTHER -> pc' = "do_work" /\ UNCHANGED <<sent, failure, result, client>>
    /\ UNCHANGED <<systemd, process, ctlVars, initVars, ticks, notifies,
                   rx_senders, tx_receiver, submitted, evVars>>

\* client.do_work() is called (115)
DoWork ==
    /\ process = "running"
    /\ pc = "do_work"
    /\ ticks' = ticks + 1
    /\ pc' = "in_do_work"
    /\ UNCHANGED <<systemd, failVars, process, ctlVars, initVars, result, client, recvs,
                   last_recv, sent, notifies, appVars, evVars>>

\* variant: the failed send is ignored (let _ = self.tx.send(..))
HandleConnectionStatus_Ignored(status, reason) ==
    /\ process = "running"
    /\ pc = "in_do_work"
    /\ Inputs < MaxInputs
    /\ TxSend(ConnectionStatusMessage(status, reason))
    /\ events' = Append(events, Ev("handle_connection_status", status, reason,
                                   TxSendResult, "()"))
    /\ UNCHANGED <<systemd, failVars, process, ctlVars, initVars, taskVars,
                   loopHist, appVars>>

\* handle_connection_status (27-34), called by the transport inside do_work.
\* unwrap() on a failed send panics: the panic unwinds the task, or aborts
\* the process when it cannot unwind through the transport's callback frame.
HandleConnectionStatus(status, reason) ==
    /\ process = "running"
    /\ pc = "in_do_work"
    /\ Inputs < MaxInputs
    /\ TxSend(ConnectionStatusMessage(status, reason))
    /\ IF TxSendResult = "Ok"
       THEN /\ events' = Append(events, Ev("handle_connection_status", status, reason,
                                           "Ok", "()"))
            /\ UNCHANGED <<pc, result, client, process>>
       ELSE /\ events' = Append(events, Ev("handle_connection_status", status, reason,
                                           "Err", "panic"))
            /\ \/ TaskExit(Panicked) /\ UNCHANGED process
               \/ process' = "aborted" /\ UNCHANGED <<pc, result, client>>
    /\ UNCHANGED <<systemd, failVars, ctlVars, initVars, loopHist, appVars>>

\* variant: the failed send ends the task with an error
HandleC2dMessage_Fatal(message) ==
    /\ process = "running"
    /\ pc = "in_do_work"
    /\ Inputs < MaxInputs
    /\ TxSend(C2dMessage(message))
    /\ events' = Append(events, Ev("handle_c2d_message", "-", message,
                                   TxSendResult, TxSendResult))
    /\ IF TxSendResult = "Ok"
       THEN UNCHANGED taskVars
       ELSE TaskExit(Err("handle_c2d_message", "e1"))
    /\ UNCHANGED <<systemd, failVars, process, ctlVars, initVars, loopHist, appVars>>

\* handle_c2d_message (36-39): the send result goes back to the transport
HandleC2dMessage(message) ==
    /\ process = "running"
    /\ pc = "in_do_work"
    /\ Inputs < MaxInputs
    /\ TxSend(C2dMessage(message))
    /\ events' = Append(events, Ev("handle_c2d_message", "-", message,
                                   TxSendResult, TxSendResult))
    /\ UNCHANGED <<systemd, failVars, process, ctlVars, initVars, taskVars,
                   loopHist, appVars>>

\* variant: the transport calls the handler from a thread of its own that
\* outlives the task
HandleTwinDesired_Detached(state, desired) ==
    /\ process = "running"
    /\ pc \in {"in_do_work", "done"}
    /\ client /= "none"
    /\ Inputs < MaxInputs
    /\ TxSend(TwinDesiredMessage(state, desired))
    /\ events' = Append(events, Ev("handle_twin_desired", state, desired,
                                   TxSendResult, TxSendResult))
    /\ UNCHANGED <<systemd, failVars, process, ctlVars, initVars, taskVars,
                   loopHist, appVars>>

\* handle_twin_desired (45-53)
HandleTwinDesired(state, desired) ==
    /\ process = "running"
    /\ pc = "in_do_work"
    /\ Inputs < MaxInputs
    /\ TxSend(TwinDesiredMessage(state, desired))
    /\ events' = Append(events, Ev("handle_twin_desired", state, desired,
                                   TxSendResult, TxSendResult))
    /\ UNCHANGED <<systemd, failVars, process, ctlVars, initVars, taskVars,
                   loopHist, appVars>>

\* variant: the loop goes back to the flag check without the notify
DoWorkReturn_SkipNotify ==
    /\ process = "running"
    /\ pc = "in_do_work"
    /\ pc' = "check"
    /\ UNCHANGED <<systemd, failVars, process, ctlVars, initVars, result, client, loopHist,
                   appVars, evVars>>

\* client.do_work() returns; its outcome is not inspected (115)
DoWorkReturn ==
    /\ process = "running"
    /\ pc = "in_do_work"
    /\ pc' = IF systemd THEN "notify" ELSE "check"
    /\ UNCHANGED <<systemd, failVars, process, ctlVars, initVars, result, client, loopHist,
                   appVars, evVars>>

\* variant: the result of wdt.notify() is dropped
Notify_Unchecked ==
    /\ process = "running"
    /\ pc = "notify"
    /\ notifies' = notifies + 1
    /\ \E res \in Outcomes("wdt.notify") :
         Returned(res) /\ pc' = "check" /\ UNCHANGED <<result, client>>
    /\ UNCHANGED <<systemd, process, ctlVars, initVars, recvs, last_recv, sent,
                   ticks, appVars, evVars>>

\* wdt.notify()? (117-118)
Notify ==
    /\ process = "running"
    /\ pc = "notify"
    /\ notifies' = notifies + 1
    /\ \E res \in Outcomes("wdt.notify") :
         Returned(res) /\ Question(res, "check")
    /\ UNCHANGED <<systemd, process, ctlVars, initVars, recvs, last_recv, sent,
                   ticks, appVars, evVars>>

\* ----------------------------------------------------------- application
\* a Sender of the manager's channel sends m; it fails once rx is dropped.
\* run() does not read the channel, so a message sent before run() is the
\* same to the task as one sent right after it.
Submit(m) ==
    /\ process = "running"
    /\ ctl /= "new"
    /\ rx_senders
    /\ pc /= "done"
    /\ Inputs < MaxInputs
    /\ rx' = Append(rx, m)
    /\ submitted' = Append(submitted, m)
    /\ UNCHANGED <<systemd, failVars, process, ctlVars, initVars, taskVars, loopHist,
                   rx_senders, tx_receiver, evVars>>

\* the application drops every Sender of the manager's channel
DropSenders ==
    /\ process = "running"
    /\ rx_senders
    /\ Inputs < MaxInputs
    /\ rx_senders' = FALSE
    /\ UNCHANGED <<systemd, failVars, process, ctlVars, initVars, taskVars, loopHist,
                   rx, tx_receiver, submitted, evVars>>

\* the application drops the Receiver of the application-facing channel
DropReceiver ==
    /\ process = "running"
    /\ tx_receiver
    /\ Inputs < MaxInputs
    /\ tx_receiver' = FALSE
    /\ UNCHANGED <<systemd, failVars, process, ctlVars, initVars, taskVars, loopHist,
                   rx, rx_senders, submitted, evVars>>

Next ==
    \/ \E cs \in {"None", "Some"} : Run(cs)
    \/ StopSetFlag
    \/ StopAwait
    \/ WdtInit
    \/ GetClientType
    \/ Construct
    \/ ConstructReturn
    \/ CheckFlag
    \/ Recv
    \/ DoWork
    \/ \E s \in {"Authenticated", "Unauthenticated"} :
          \E r \in (IF s = "Authenticated" THEN {"-"} ELSE Reasons) :
             HandleConnectionStatus(s, r)
    \/ \E m \in Payloads : HandleC2dMessage(m)
    \/ \E s \in TwinUpdateState, v \in Values : HandleTwinDesired(s, v)
    \/ DoWorkReturn
    \/ Notify
    \/ \E m \in Submittable : Submit(m)
    \/ DropSenders
    \/ DropReceiver

Spec == Init /\ [][Next]_vars

\* a step of the spawned task itself (every call it makes returns)
TaskStep ==
    \/ WdtInit
    \/ GetClientType
    \/ Construct
    \/ ConstructReturn
    \/ CheckFlag
    \/ Recv
    \/ DoWork
    \/ DoWorkReturn
    \/ Notify

\* the runtime keeps scheduling the task and the caller awaiting the join:
\* whichever of them can take a step eventually takes one
FairSpec ==
    Spec /\ WF_vars(TaskStep \/ StopAwait)

\* ================================================================ claims
Last(q) == q[Len(q)]

IsOutbound(m) == m.kind \in {"Reported", "D2C"}

SubmittedOutbound == SelectSeq(submitted, IsOutbound)

\* ---------------------------------------------------------------------- C1
\* C1: the transport send calls are, in call order, a prefix of the submitted
\* messages restricted to Reported/D2C: send_reported_state for a Reported,
\* send_d2c_message for a D2C, each with the payload of its message.
C1_SendsInSubmissionOrder ==
    /\ Len(sent) <= Len(SubmittedOutbound)
    /\ \A i \in 1..Len(sent) :
         /\ sent[i].payload = SubmittedOutbound[i].payload
         /\ sent[i].op = (IF SubmittedOutbound[i].kind = "Reported"
                          THEN "send_reported_state" ELSE "send_d2c_message")

\* two different messages were submitted and both were sent
C1_Witness ==
    /\ Len(sent) = 2
    /\ sent[1].op /= sent[2].op \/ sent[1].payload /= sent[2].payload

\* ---------------------------------------------------------------------- C2
\* C2: the step that dequeues Terminate ends the task with Ok(()) whatever the
\* run flag holds, without a send, tick or notify; from then on there is no
\* receive, send, tick or notify and the messages behind it stay queued.
C2_TerminateEndsTask ==
    [][ /\ (recvs' = recvs + 1 /\ last_recv' = Terminate) =>
              /\ pc' = "done" /\ result' = Ok /\ client' = "dropped"
              /\ UNCHANGED <<sent, ticks, notifies>>
        /\ (pc = "done" /\ last_recv = Terminate) =>
              /\ pc' = "done" /\ result' = Ok
              /\ UNCHANGED <<recvs, last_recv, rx, sent, ticks, notifies, tx>>
      ]_vars

\* Terminate ended the task after stop() cleared the flag, a message behind it
C2_Witness ==
    /\ pc = "done" /\ last_recv = Terminate
    /\ rx /= <<>>

\* the same with the run flag false when Terminate was dequeued
C2_WitnessFlagFalse ==
    /\ pc = "done" /\ last_recv = Terminate
    /\ ctl = "stopping" /\ at_stop.recvs < recvs

\* ---------------------------------------------------------------------- C3
\* C3: once stop() has returned the task has ended and the transport is not
\* alive, and nothing is received, sent, ticked or notified any more; after
\* stop() wrote the flag the loop does at most one more receive, one more
\* send and one more tick.
C3_StopEndsLoop ==
    /\ [](ctl = "stopped" => pc = "done" /\ client /= "alive")
    /\ [](ctl \in {"stopping", "stopped"} =>
            /\ recvs <= at_stop.recvs + 1
            /\ Len(sent) <= at_stop.sends + 1
            /\ ticks <= at_stop.ticks + 1)
    /\ [][ctl = "stopped" =>
            UNCHANGED <<pc, client, recvs, sent, ticks, notifies, constructs, events>>]_vars

\* stop() returned after one whole iteration ran behind the flag write
C3_Witness ==
    /\ ctl = "stopped"
    /\ recvs = at_stop.recvs + 1
    /\ Len(sent) = at_stop.sends + 1
    /\ ticks = at_stop.ticks + 1

\* ---------------------------------------------------------------------- C4
SendFailed == sent /= <<>> /\ Last(sent).res.tag = "Err"

\* C4: a failed send_reported_state / send_d2c_message ends the task in that
\* step with exactly that error, before the tick and the notify of the
\* iteration; nothing is received or sent afterwards and stop() returns it.
C4_SendErrorIsFatal ==
    /\ [](SendFailed =>
            /\ pc = "done"
            /\ result = Last(sent).res
            /\ ticks = recvs - 1
            /\ notifies = (IF systemd THEN recvs - 1 ELSE 0)
            /\ (ctl = "stopped" => stop_result = Last(sent).res))
    /\ [](\A i \in 1..Len(sent) : i < Len(sent) => sent[i].res = Ok)
    /\ [][SendFailed => UNCHANGED <<recvs, rx, sent, ticks, notifies>>]_vars

\* a send failed with a message still queued, and stop() has returned
C4_Witness ==
    /\ SendFailed
    /\ rx /= <<>>
    /\ ctl = "stopped"

\* ---------------------------------------------------------------------- C5
StartupFailed ==
    failure.tag = "Err" /\ failure.op \notin {"send_reported_state", "send_d2c_message", "wdt.notify"}

\* C5: a failed wdt.init or transport constructor ends the task with that
\* error before the loop: nothing is ever received, sent, ticked or notified,
\* no transport exists, stop() returns that error; a failed wdt.init comes
\* before any constructor call.
C5_StartupErrorIsFatal ==
    StartupFailed =>
        /\ pc = "done"
        /\ result = failure
        /\ recvs = 0 /\ sent = <<>> /\ ticks = 0 /\ notifies = 0 /\ events = <<>>
        /\ client = "none"
        /\ (ctl = "stopped" => stop_result = failure)
        /\ (failure.op = "wdt.init" => constructs = 0)
        /\ (failure.op /= "wdt.init" => constructs = 1)

\* a constructor failed with a message waiting and stop() returned the error
C5_Witness ==
    /\ StartupFailed
    /\ failure.op = "from_identity_service"
    /\ rx /= <<>>
    /\ ctl = "stopped"

\* wdt.init failed and stop() returned the error
C5_WitnessWdt ==
    /\ StartupFailed
    /\ failure.op = "wdt.init"
    /\ ctl = "stopped"

\* ---------------------------------------------------------------------- C6
\* run(), then D2C(p), then Terminate, then stop(), and stop() has returned
Scenario6(p) ==
    /\ submitted = <<D2C(p), Terminate>>
    /\ at_stop.submitted = 2
    /\ ctl = "stopped"

\* no external call returned Err to the task and no handler panicked
NothingFailed ==
    /\ failure = NoResult
    /\ \A i \in 1..Len(events) : events[i].ret /= "panic"

\* C6 as stated: in that scenario the transport saw exactly one
\* send_d2c_message call, with payload p, and stop() returned Ok(());
\* taken here in its most favourable reading, with no call failing.
C6_Original ==
    \A p \in Payloads :
       Scenario6(p) /\ NothingFailed =>
          /\ Len(sent) = 1
          /\ sent[1].op = "send_d2c_message" /\ sent[1].payload = p
          /\ stop_result = Ok

\* C6 amended: in that scenario the transport saw at most one send call, a
\* send_d2c_message with payload p; when the loop ended by dequeuing the
\* Terminate it saw exactly one, which succeeded, and stop() returned Ok(());
\* stop() also returned Ok(()) whenever no call failed.
C6_OneSendWhenTerminateDequeued ==
    \A p \in Payloads :
       Scenario6(p) =>
          /\ Len(sent) <= 1
          /\ \A i \in 1..Len(sent) :
                sent[i].op = "send_d2c_message" /\ sent[i].payload = p
          /\ last_recv = Terminate =>
                /\ sent = <<SendCall("send_d2c_message", p, Ok)>>
                /\ stop_result = Ok
          /\ NothingFailed => stop_result = Ok

\* the scenario ran to the Terminate: one send of p2, stop() returned Ok(())
C6_Witness ==
    /\ Scenario6("p2")
    /\ last_recv = Terminate
    /\ Len(sent) = 1
    /\ stop_result = Ok

\* ---------------------------------------------------------------------- C7
\* C7: while the application-facing Receiver is alive the channel holds, in
\* call order, exactly one Message per handler call: Authenticated,
\* Unauthenticated(reason), C2D(message), Desired(state, value), with the
\* arguments of the call unchanged.
C7_EveryEventEnqueuedOnce ==
    tx_receiver =>
        /\ Len(tx) = Len(events)
        /\ \A i \in 1..Len(events) :
              LET e == events[i] IN
              tx[i] =
                 CASE e.call = "handle_connection_status" /\ e.state = "Authenticated" ->
                         [kind |-> "Authenticated", state |-> "-", payload |-> "-"]
                   [] e.call = "handle_connection_status" /\ e.state = "Unauthenticated" ->
                         [kind |-> "Unauthenticated", state |-> "-", payload |-> e.payload]
                   [] e.call = "handle_c2d_message" ->
                         [kind |-> "C2D", state |-> "-", payload |-> e.payload]
                   [] e.call = "handle_twin_desired" ->
                         [kind |-> "Desired", state |-> e.state, payload |-> e.payload]

\* two different events were delivered and enqueued
C7_Witness ==
    /\ tx_receiver
    /\ Len(events) = 2
    /\ events[1].call /= events[2].call
    /\ events[2].call = "handle_c2d_message" /\ events[2].payload = "p2"

\* ---------------------------------------------------------------------- C8
\* handle_c2d_message or handle_twin_desired could not enqueue
EnqueueErr ==
    \E i \in 1..Len(events) :
       events[i].call \in {"handle_c2d_message", "handle_twin_desired"}
       /\ events[i].send = "Err"

\* C8 as stated: after such a failure the loop does not go on past the tick,
\* the task ends with an error and stop() returns it.
C8_Original ==
    EnqueueErr =>
        /\ pc \in {"in_do_work", "done"}
        /\ (pc = "done" => result.tag \in {"Err", "Panic"})
        /\ (ctl = "stopped" => stop_result.tag = "Err")

\* C8 amended: the handler returns the failure to the transport as its own
\* Err result and enqueues nothing; the run loop does not see it: the task
\* stays inside the tick with its result untouched, and unless something
\* else fails the task ends with Ok(()) and stop() returns Ok(()).
C8_EnqueueErrorNotSeenByLoop ==
    /\ [][ (Len(events') = Len(events) + 1
            /\ Last(events').call \in {"handle_c2d_message", "handle_twin_desired"}
            /\ ~tx_receiver) =>
              /\ Last(events').send = "Err" /\ Last(events').ret = "Err"
              /\ pc = "in_do_work"
              /\ UNCHANGED <<pc, result, client, tx, failure, process, loopHist>>
        ]_vars
    /\ [](NothingFailed =>
            /\ result \in {NoResult, Ok}
            /\ (ctl = "stopped" => stop_result = Ok))

\* an enqueue failed in the first tick, the loop ran a second iteration and
\* stop() returned Ok(())
C8_Witness ==
    /\ EnqueueErr
    /\ events[1].send = "Err"
    /\ recvs = 2 /\ ticks = 2
    /\ ctl = "stopped" /\ stop_result = Ok

\* ---------------------------------------------------------------------- C9
\* handle_connection_status could not enqueue
ConnStatusFailed ==
    \E i \in 1..Len(events) :
       events[i].call = "handle_connection_status" /\ events[i].send = "Err"

\* C9 as stated: the failure is an error outcome of the call, the executing
\* context neither panics nor aborts.
C9_Original ==
    ConnStatusFailed =>
        /\ process = "running"
        /\ result /= Panicked
        /\ \A i \in 1..Len(events) : events[i].ret /= "panic"

\* C9 amended: the call panics and returns no value: nothing is enqueued for
\* it, no handler call, notify or loop step follows, the task ends by the
\* panic, which stop() returns as the join error, or the process aborts.
C9_ConnStatusFailurePanics ==
    ConnStatusFailed =>
        /\ Last(events).call = "handle_connection_status"
        /\ Last(events).send = "Err" /\ Last(events).ret = "panic"
        /\ Len(tx) < Len(events)
        /\ \/ process = "aborted" /\ pc = "in_do_work" /\ result = NoResult
           \/ process = "running" /\ pc = "done" /\ result = Panicked
                                  /\ client = "dropped"
        /\ recvs = ticks
        /\ notifies = (IF systemd THEN ticks - 1 ELSE 0)
        /\ (ctl = "stopped" => stop_result = JoinError)

\* the task panicked in the handler and stop() returned the join error
C9_Witness ==
    /\ ConnStatusFailed
    /\ ctl = "stopped"
    /\ stop_result = JoinError

\* the process aborted in the handler
C9_WitnessAbort ==
    /\ ConnStatusFailed
    /\ process = "aborted"

\* --------------------------------------------------------------------- C10
\* C10 as stated: a receive that fails because every Sender is gone ends the
\* task with an error; only a timeout lets the loop go on.
C10_Original ==
    last_recv = RecvDisconnected =>
        /\ pc = "done"
        /\ result.tag = "Err"

\* --------------------------------------------------------------------- C11
\* C11: the guard of the run-flag mutex is never held across a step (a
\* receive, a transport or watchdog call, the join), and once stop() has
\* written the flag after run(), stop() returns, unless the process aborted
\* inside a tick that therefore never returned.
C11_StopReturns ==
    /\ [](run_guard = "none")
    /\ (ctl = "stopping" /\ thread = "Some") ~> (ctl = "stopped" \/ process = "aborted")

\* stop() returned although it wrote the flag while the loop was in its body
C11_Witness ==
    /\ ctl = "stopped"
    /\ at_stop.recvs < recvs
    /\ run_guard = "none"

\* --------------------------------------------------------------------- C12
Constructors == {"from_connection_string", "from_identity_service", "from_edge_environment"}

\* the task is past the selection of the strategy and has not ended
PastSelection == pc \in {"constructing", "check", "recv", "do_work", "in_do_work", "notify"}

\* C12: the constructor called is the one of the connection string when one
\* was supplied, whatever the client type; without one it is the identity
\* service for Device and Module and the edge environment for Edge. A run()
\* calls at most one constructor, exactly one once the selection is reached,
\* and a constructor that failed ends the task with no other one called.
C12_StrategyPrecedence ==
    /\ [](constructs <= 1)
    /\ [](PastSelection => constructs = 1)
    /\ [](pc = "constructing" /\ connection_string = "Some" =>
            constructing = "from_connection_string")
    /\ [](failure.op \in Constructors =>
            pc = "done" /\ constructs = 1 /\ client = "none" /\ result = failure)
    /\ [][constructs' /= constructs =>
            /\ pc = "construct" /\ pc' = "constructing"
            /\ constructs' = constructs + 1
            /\ connection_string = "Some" => constructing' = "from_connection_string"
            /\ connection_string = "None" /\ client_type \in {"Device", "Module"} =>
                   constructing' = "from_identity_service"
            /\ connection_string = "None" /\ client_type = "Edge" =>
                   constructing' = "from_edge_environment"]_vars
    /\ [][pc = "construct" /\ pc' /= pc => constructs' = constructs + 1]_vars

\* a connection string and the client type Device together: the constructor
\* of the connection string is the one in flight
C12_Witness ==
    /\ pc = "constructing"
    /\ connection_string = "Some"
    /\ client_type = "Device"
    /\ constructing = "from_connection_string"

\* the connection-string constructor failed and stop() returned its error
C12_WitnessNoFallback ==
    /\ failure.op = "from_connection_string"
    /\ ctl = "stopped"
    /\ stop_result = failure

\* --------------------------------------------------------------------- C13
NotifyFailed == failure.tag = "Err" /\ failure.op = "wdt.notify"

\* C13: once wdt.notify() has returned an error the task has ended with that
\* error in the very step of the call, the transport is dropped, the failed
\* notify closed a whole iteration (as many notifies as ticks as receives),
\* nothing is received, sent, ticked or notified afterwards, and stop()
\* returns that error.
C13_NotifyErrorIsFatal ==
    /\ [](NotifyFailed =>
            /\ systemd
            /\ pc = "done" /\ result = failure /\ client = "dropped"
            /\ notifies = ticks /\ ticks = recvs
            /\ (ctl = "stopped" => stop_result = failure))
    /\ [][~NotifyFailed /\ NotifyFailed' =>
            /\ pc = "notify" /\ pc' = "done"
            /\ notifies' = notifies + 1
            /\ UNCHANGED <<recvs, last_recv, sent, ticks, rx>>]_vars
    /\ [][NotifyFailed => UNCHANGED <<loopHist, rx, pc, result>>]_vars

\* the notify failed with a message still queued, and stop() returned the error
C13_Witness ==
    /\ NotifyFailed
    /\ rx /= <<>>
    /\ ctl = "stopped"
    /\ stop_result = failure

\* --------------------------------------------------------------------- C14
\* the loop ended in the receive step: Terminate was dequeued or a send failed
EndedInReceive ==
    pc = "done" /\ (last_recv = Terminate \/ SendFailed)

\* C14: an iteration is flag check, one recv_timeout, at most one send (in
\* the step of the receive, for Reported and D2C only), one do_work and, in
\* a build with the watchdog, one notify, in this order. So notifies <= ticks
\* <= receives and sends <= receives always; with the watchdog the notifies
\* are the ticks or one less (there are none without it); the counts at each
\* position of the task are fixed by the order; and an iteration ended by
\* Terminate or by a failed send has its receive but no tick.
C14_IterationOrder ==
    /\ [](notifies <= ticks /\ ticks <= recvs /\ Len(sent) <= recvs)
    /\ [](IF systemd THEN notifies >= ticks - 1 ELSE notifies = 0)
    /\ [](pc \in {"check", "recv"} => ticks = recvs /\ (systemd => notifies = ticks))
    /\ [](pc = "do_work" => recvs = ticks + 1 /\ (systemd => notifies = ticks))
    /\ [](pc = "in_do_work" => ticks = recvs /\ (systemd => notifies = ticks - 1))
    /\ [](pc = "notify" => systemd /\ ticks = recvs /\ notifies = ticks - 1)
    /\ [](EndedInReceive => recvs = ticks + 1)
    /\ [][recvs' /= recvs =>
            pc = "recv" /\ run_guard = "none" /\ recvs' = recvs + 1]_vars
    /\ [][pc' = "recv" /\ pc /= "recv" => pc = "check" /\ run]_vars
    /\ [][sent' /= sent =>
            /\ recvs' = recvs + 1
            /\ Len(sent') = Len(sent) + 1
            /\ last_recv'.kind \in {"Reported", "D2C"}]_vars
    /\ [][ticks' /= ticks =>
            pc = "do_work" /\ ticks' = ticks + 1 /\ UNCHANGED <<recvs, sent, notifies>>]_vars
    /\ [][notifies' /= notifies =>
            pc = "notify" /\ notifies' = notifies + 1 /\ UNCHANGED <<recvs, sent, ticks>>]_vars
    /\ [][EndedInReceive => UNCHANGED <<ticks, notifies>>]_vars

\* two whole iterations with the watchdog, the second one with a send
C14_Witness ==
    /\ systemd
    /\ recvs = 2 /\ ticks = 2 /\ notifies = 2
    /\ Len(sent) = 1
    /\ last_recv.kind = "D2C"

\* the loop ended by a Terminate in its second iteration: one tick only
C14_WitnessTerminate ==
    /\ pc = "done" /\ last_recv = Terminate
    /\ recvs = 2 /\ ticks = 1

\* --------------------------------------------------------------------- C15
OtherKinds == {"Desired", "C2D", "Authenticated", "Unauthenticated"}

\* the messages the loop has dequeued so far (the channel is FIFO)
Dequeued == SubSeq(submitted, 1, Len(submitted) - Len(rx))

\* C15: every Desired, C2D, Authenticated and Unauthenticated message falls
\* into the arm that does nothing; the receive step that dequeues one makes
\* no send, records no failure, leaves the task's result, the transport and
\* the run flag as they were and goes on to the tick of that iteration. The
\* send calls are never more than the Reported and D2C messages dequeued,
\* and a connection status event that was enqueued for the application
\* leaves the task where it was.
C15_OtherVariantsIgnored ==
    /\ [](\A m \in Message : m.kind \in OtherKinds => Arm(m) = "continue")
    /\ [](Len(sent) <= Len(SelectSeq(Dequeued, IsOutbound)))
    /\ [][recvs' /= recvs /\ last_recv'.kind \in OtherKinds =>
            /\ last_recv' = Head(rx) /\ rx' = Tail(rx)
            /\ pc' = "do_work"
            /\ UNCHANGED <<sent, failure, result, client, run, ticks, notifies>>]_vars
    /\ [][/\ Len(events') > Len(events)
          /\ Last(events').call = "handle_connection_status"
          /\ Last(events').send = "Ok"
          => UNCHANGED <<pc, result, client, run, loopHist>>]_vars

\* an Authenticated message was dequeued and ignored, the iteration ticked
\* and the loop is back at its flag check
C15_Witness ==
    /\ last_recv = Authenticated
    /\ pc = "check"
    /\ ticks = recvs
    /\ sent = <<>>

\* a Desired message was dequeued and ignored after a telemetry send
C15_WitnessDesired ==
    /\ last_recv.kind = "Desired"
    /\ pc = "do_work"
    /\ Len(sent) = 1

\* --------------------------------------------------------------------- C16
\* C16: the run flag changes only in run(), to true, and in stop(), to
\* false; no step of the task changes it, whichever way the task ends. So
\* the flag is false before run(), true from run() until stop() even when
\* the task has ended, and false from stop() on.
C16_FlagWrittenByController ==
    /\ [](run = (ctl = "running"))
    /\ [][run' /= run =>
            \/ ctl = "new" /\ ctl' = "running" /\ run' = TRUE
            \/ ctl = "running" /\ ctl' = "stopping" /\ run' = FALSE]_vars
    /\ [][ctl' = "stopping" /\ ctl /= "stopping" => run' = FALSE]_vars
    /\ [][pc /= "unspawned" /\ pc' /= pc => run' = run]_vars

\* the task has ended by a Terminate and the flag is still true
C16_Witness ==
    /\ pc = "done"
    /\ last_recv = Terminate
    /\ run = TRUE

\* the task has ended by an error and the flag is still true
C16_WitnessError ==
    /\ pc = "done"
    /\ result.tag = "Err"
    /\ run = TRUE

\* --------------------------------------------------------------------- C17
\* stop() wrote the run flag after run() and before the task had passed a
\* flag check
StoppedBeforeFirstCheck ==
    /\ ctl \in {"stopping", "stopped"}
    /\ pc /= "unspawned"
    /\ ~at_stop.entered

\* C17: when stop() wrote the flag before the task's first flag check, the
\* task never enters the loop body: no receive, send, tick, notify or event
\* handler call is made and every submitted message stays in the channel.
\* The task still goes through its start-up: when it has ended, a
\* constructor was called (unless the watchdog set-up had failed before),
\* and when no start-up call failed the transport was built and dropped, the
\* task's result is Ok and stop() returns Ok.
C17_StopBeforeFirstCheck ==
    StoppedBeforeFirstCheck =>
        /\ recvs = 0 /\ last_recv = NoRecv
        /\ sent = <<>> /\ ticks = 0 /\ notifies = 0 /\ events = <<>>
        /\ rx = submitted
        /\ pc \in {"wdt_init", "get_client_type", "construct", "constructing", "check", "done"}
        /\ (pc = "done" /\ failure.op /= "wdt.init" => constructs = 1)
        /\ (pc = "done" /\ failure = NoResult => client = "dropped" /\ result = Ok)
        /\ (pc = "done" /\ failure /= NoResult => result = failure)
        /\ (ctl = "stopped" => pc = "done" /\ stop_result = result)

\* run(), a Terminate submitted, stop() before the first flag check: stop()
\* returned Ok, the transport was built and the Terminate is still queued
C17_Witness ==
    /\ StoppedBeforeFirstCheck
    /\ ctl = "stopped"
    /\ stop_result = Ok
    /\ constructs = 1 /\ client = "dropped"
    /\ rx /= <<>> /\ Last(rx) = Terminate

\* --------------------------------------------------------------------- C18
\* stop() was called on a Client on which run() was never called
StopWithoutRun == ctl \in {"stopping", "panicked"} /\ pc = "unspawned"

\* C18: the handle is None from new() until run(). A stop() with no run()
\* before it writes the flag false and then panics on the unwrap of the
\* handle: it returns no Result, and no task was ever spawned. A stop() that
\* returned a Result had a task to join.
C18_StopWithoutRunPanics ==
    /\ [](ctl = "new" => thread = "None" /\ pc = "unspawned")
    /\ [](StopWithoutRun => thread = "None" /\ run = FALSE /\ stop_result = NoResult)
    /\ [](ctl = "panicked" => StopWithoutRun)
    /\ [](ctl = "stopped" => pc = "done" /\ stop_result /= NoResult)
    /\ [][StopWithoutRun /\ ctl' /= ctl => ctl' = "panicked"]_vars
    /\ [][ctl = "panicked" => UNCHANGED <<ctl, stop_result, pc, run, thread>>]_vars

\* stop() without run() has panicked
C18_Witness ==
    /\ ctl = "panicked"
    /\ pc = "unspawned"
    /\ run = FALSE
    /\ stop_result = NoResult

\* --------------------------------------------------------------------- C19
\* C19: an event handler is called, and the application-facing channel
\* grows, only inside a do_work call of the living transport. When the task
\* has ended, however it ended, the transport it owned is dropped, and from
\* then on no handler is called and nothing is enqueued; the same holds
\* after stop() has returned.
C19_NoEnqueueAfterTaskEnd ==
    /\ [](pc = "done" => client /= "alive")
    /\ [](ctl = "stopped" => pc = "done")
    /\ [][tx' /= tx \/ events' /= events =>
            pc = "in_do_work" /\ client = "alive" /\ process = "running"]_vars
    /\ [][pc = "done" => UNCHANGED <<tx, events>>]_vars
    /\ [][ctl = "stopped" => UNCHANGED <<tx, events, pc>>]_vars

\* stop() has returned after an event was enqueued; the application still
\* holds the Receiver and the environment could still act
C19_Witness ==
    /\ ctl = "stopped"
    /\ pc = "done" /\ client = "dropped"
    /\ tx /= <<>>
    /\ tx_receiver
    /\ Inputs < MaxInputs

====
